---- MODULE Spec2Model ----
(***************************************************************************)
(* goapng: the APNG writer of writer.go.  EncodeAll validates an           *)
(* animation, encodes every frame with the single-image PNG codec,         *)
(* decomposes that standalone PNG with fetchPNGChunk and re-multiplexes    *)
(* the payloads into one chunk stream.  Bytes are naturals 0..255, byte    *)
(* slices are sequences, 32-bit words that go to the wire are 4-byte       *)
(* big-endian tuples.                                                      *)
(***************************************************************************)
EXTENDS Integers, Sequences, FiniteSets, TLC

VARIABLES
    a,      \* the *APNG argument of EncodeAll: Image, Delay, Disposal, LoopCount
    e,      \* the encoder struct of one EncodeAll call; e.w is the caller's sink
    pc,     \* position of the running call
    i,      \* loop index of EncodeAll's frame loop (0-based, as in the source)
    ret,    \* what the call returned (or how it ended), "running" before that
    png,    \* the standalone PNG buffer handed to fetchPNGChunk (its description)
    c,      \* the chunkFetcher struct
    fret,   \* what fetchPNGChunk returned, "running" before that
    other   \* a second EncodeAll call, while it is not the one taking steps:
            \* its a, e, pc, i and ret

vars == <<a, e, pc, i, ret, png, c, fret, other>>

(***************************************************************************)
(* Bounds of the model.                                                    *)
(***************************************************************************)
MaxFrames == 2      \* longest animation drawn
MaxCut == 6         \* most bytes cut off the end of a standalone PNG buffer

(***************************************************************************)
(* Program constants.                                                      *)
(***************************************************************************)
pngHeader == <<137, 80, 78, 71, 13, 10, 26, 10>>
dsStart == 0
dsSeenIHDR == 1
dsSeenPLTE == 2
dsSeentRNS == 3
dsSeenIDAT == 4
dsSeenIEND == 5
fetcherTmpLen == 768        \* chunkFetcher.tmp [3 * 256]byte
encoderTmpLen == 26         \* the prefix of encoder.tmp the code ever touches
delayDen == 100

IHDR == <<73, 72, 68, 82>>
PLTE == <<80, 76, 84, 69>>
tRNS == <<116, 82, 78, 83>>
IDAT == <<73, 68, 65, 84>>
IEND == <<73, 69, 78, 68>>
acTL == <<97, 99, 84, 76>>
fcTL == <<102, 99, 84, 76>>
fdAT == <<102, 100, 65, 84>>

\* error values
NoErr == "nil"
SinkErr == "sink: E"
EOF == "EOF"
ErrUnexpectedEOF == "unexpected EOF"
ErrNoImage == "apng: need at least one image"
ErrDelayLen == "apng: mismatched image and delay lengths"
ErrDisposalLen == "apng: mismatch image and disposal lengths"
ErrColorModel == "apng: must be all the same color model of images"
ErrRegion == "apng: must fullfill frame region constraints."
ErrTooLarge == "apng: chunk is too large"
ErrPngEncode == "apng: png encoding error"
PanicUncomparable == "panic: comparing uncomparable type color.Palette"
PanicMakeslice == "panic: makeslice: cap out of range"
PanicSliceBounds == "panic: slice bounds out of range"
Panics == {PanicUncomparable, PanicMakeslice, PanicSliceBounds}

(***************************************************************************)
(* Binary primitives.                                                      *)
(***************************************************************************)
writeUint16(u) == <<(u \div 256) % 256, u % 256>>

writeUint32(u) ==
    <<(u \div 16777216) % 256, (u \div 65536) % 256, (u \div 256) % 256, u % 256>>

\* binary.BigEndian.Uint32; a value of 2^31 or more is only ever compared with
\* buffer lengths, and saturates at the largest integer TLC holds.
Uint32(b) ==
    IF b[1] >= 128 THEN 2147483647
    ELSE b[1] * 16777216 + b[2] * 65536 + b[3] * 256 + b[4]

\* F applied to the value of v
Bind(v, F(_)) == CHOOSE r \in { F(x) : x \in {v} } : TRUE

RECURSIVE xorBits(_, _)
xorBits(x, y) ==
    IF x = 0 THEN y
    ELSE IF y = 0 THEN x
    ELSE ((x + y) % 2) + 2 * xorBits(x \div 2, y \div 2)

xorTable == [n \in 0..255 |-> xorBits(n \div 16, n % 16)] @@ <<>>

xor8(x, y) ==
    16 * xorTable[16 * (x \div 16) + (y \div 16)] + xorTable[16 * (x % 16) + (y % 16)]

xor32(u, v) == <<xor8(u[1], v[1]), xor8(u[2], v[2]), xor8(u[3], v[3]), xor8(u[4], v[4])>>

shr1(u) ==
    <<u[1] \div 2, (u[2] \div 2) + 128 * (u[1] % 2),
      (u[3] \div 2) + 128 * (u[2] % 2), (u[4] \div 2) + 128 * (u[3] % 2)>>

\* crc32.IEEE, the reversed polynomial 0xedb88320
IEEEPoly == <<237, 184, 131, 32>>

RECURSIVE crcBits(_, _)
crcBits(u, k) ==
    IF k = 0 THEN u
    ELSE Bind(IF u[4] % 2 = 1 THEN xor32(shr1(u), IEEEPoly) ELSE shr1(u),
              LAMBDA d : crcBits(d, k - 1))

crcTable == [n \in 0..255 |-> crcBits(<<0, 0, 0, n>>, 8)] @@ <<>>

\* hash.Hash32.Write: the running (inverted) CRC after the bytes p[j..]
RECURSIVE crcWrite(_, _, _)
crcWrite(u, p, j) ==
    IF j > Len(p) THEN u
    ELSE Bind(xor32(crcTable[xor8(u[4], p[j])], <<0, u[1], u[2], u[3]>>),
              LAMBDA d : crcWrite(d, p, j + 1))

crcNewIEEE == <<255, 255, 255, 255>>
crcSum32(u) == xor32(u, <<255, 255, 255, 255>>)

(***************************************************************************)
(* The sink: an io.Writer.  log holds every Write call made on it, in      *)
(* order, with its bytes and whether it succeeded; failIn = k > 0 says     *)
(* that the k-th Write call from now returns SinkErr.                      *)
(***************************************************************************)
Write(w, p) ==
    [w   |-> [log    |-> Append(w.log, [data |-> p, ok |-> w.failIn # 1]),
              failIn |-> IF w.failIn > 0 THEN w.failIn - 1 ELSE 0],
     err |-> IF w.failIn = 1 THEN SinkErr ELSE NoErr]

(***************************************************************************)
(* encoder                                                                 *)
(***************************************************************************)
Zeros(n) == [j \in 1..n |-> 0]

newEncoder(w) ==
    [w |-> w, seqNum |-> 0, tmpHeader |-> Zeros(8), tmp |-> Zeros(encoderTmpLen),
     tmpFooter |-> Zeros(4), ihdr |-> <<>>, idats |-> <<>>, err |-> NoErr]

\* A payload of 2^31 bytes or more is not held byte by byte: <<-1, hi, lo>>
\* stands for hi * 65536 + lo bytes of image data (-1 is no byte).
hugePayload(hi, lo) == <<-1, hi, lo>>
isHuge(b) == Len(b) = 3 /\ b[1] = -1

\* len(b), as the pair <<len(b) \div 65536, len(b) % 65536>>
len(b) == IF isHuge(b) THEN <<b[2], b[3]>> ELSE <<Len(b) \div 65536, Len(b) % 65536>>

\* append(p, b...)
append(p, b) ==
    IF isHuge(b)
    THEN hugePayload(b[2] + ((b[3] + Len(p)) \div 65536), (b[3] + Len(p)) % 65536)
    ELSE p \o b

\* n := uint32(len(b)); int(n) == len(b): the length is below 2^32
fitsUint32(n) == n[1] < 65536

\* crc32.NewIEEE(); crc.Write(name); crc.Write(b); crc.Sum32()
chunkCrc(name, b) == crcSum32(crcWrite(crcWrite(crcNewIEEE, name, 1), b, 1))

\* writeChunk without the check of the sticky error that opens it
writeChunkNotSticky(en, b, name) ==
    IF ~fitsUint32(len(b)) THEN [en EXCEPT !.err = ErrTooLarge]
    ELSE
      Bind(writeUint32(Len(b)) \o name, LAMBDA hdr :
      Bind(Write(en.w, hdr), LAMBDA r1 :
        IF r1.err # NoErr
        THEN [en EXCEPT !.tmpHeader = hdr, !.w = r1.w, !.err = r1.err]
        ELSE
          Bind(Write(r1.w, b), LAMBDA r2 :
            IF r2.err # NoErr
            THEN [en EXCEPT !.tmpHeader = hdr, !.w = r2.w, !.err = r2.err]
            ELSE
              Bind(chunkCrc(SubSeq(hdr, 5, 8), b), LAMBDA sum :
              Bind(Write(r2.w, sum), LAMBDA r3 :
                [en EXCEPT !.tmpHeader = hdr, !.tmpFooter = sum,
                           !.w = r3.w, !.err = r3.err])))))

\* writeChunk with the CRC taken over the tag the scratch header held before
\* this chunk
writeChunkStaleCrc(en, b, name) ==
    IF en.err # NoErr THEN en
    ELSE IF ~fitsUint32(len(b)) THEN [en EXCEPT !.err = ErrTooLarge]
    ELSE
      Bind(writeUint32(Len(b)) \o name, LAMBDA hdr :
      Bind(Write(en.w, hdr), LAMBDA r1 :
        IF r1.err # NoErr
        THEN [en EXCEPT !.tmpHeader = hdr, !.w = r1.w, !.err = r1.err]
        ELSE
          Bind(Write(r1.w, b), LAMBDA r2 :
            IF r2.err # NoErr
            THEN [en EXCEPT !.tmpHeader = hdr, !.w = r2.w, !.err = r2.err]
            ELSE
              Bind(chunkCrc(SubSeq(en.tmpHeader, 5, 8), b), LAMBDA sum :
              Bind(Write(r2.w, sum), LAMBDA r3 :
                [en EXCEPT !.tmpHeader = hdr, !.tmpFooter = sum,
                           !.w = r3.w, !.err = r3.err])))))

writeChunk(en, b, name) ==
    IF en.err # NoErr THEN en
    ELSE IF ~fitsUint32(len(b)) THEN [en EXCEPT !.err = ErrTooLarge]
    ELSE
      Bind(writeUint32(Len(b)) \o name, LAMBDA hdr :
      Bind(Write(en.w, hdr), LAMBDA r1 :
        IF r1.err # NoErr
        THEN [en EXCEPT !.tmpHeader = hdr, !.w = r1.w, !.err = r1.err]
        ELSE
          Bind(Write(r1.w, b), LAMBDA r2 :
            IF r2.err # NoErr
            THEN [en EXCEPT !.tmpHeader = hdr, !.w = r2.w, !.err = r2.err]
            ELSE
              Bind(chunkCrc(SubSeq(hdr, 5, 8), b), LAMBDA sum :
              Bind(Write(r2.w, sum), LAMBDA r3 :
                [en EXCEPT !.tmpHeader = hdr, !.tmpFooter = sum,
                           !.w = r3.w, !.err = r3.err])))))

\* line 358: _, e.err = io.WriteString(w, pngHeader)
writeSignature(en) ==
    Bind(Write(en.w, pngHeader), LAMBDA r : [en EXCEPT !.w = r.w, !.err = r.err])

writeIHDR(en) == writeChunk(en, en.ihdr, IHDR)

\* writeacTL with the loop count put before the frame count
writeacTLLoopFirst(en) ==
    Bind(writeUint32(a.LoopCount) \o writeUint32(Len(a.Image))
           \o SubSeq(en.tmp, 9, encoderTmpLen),
         LAMBDA t : writeChunk([en EXCEPT !.tmp = t], SubSeq(t, 1, 8), acTL))

writeacTL(en) ==
    Bind(writeUint32(Len(a.Image)) \o writeUint32(a.LoopCount)
           \o SubSeq(en.tmp, 9, encoderTmpLen),
         LAMBDA t : writeChunk([en EXCEPT !.tmp = t], SubSeq(t, 1, 8), acTL))

\* fcTLPayload with the switch on e.a.Disposal[frameIndex] the source comments out
fcTLPayloadWithDisposal(en, frameIndex) ==
    Bind(a.Image[frameIndex + 1].bounds, LAMBDA bounds :
        writeUint32(en.seqNum)
          \o writeUint32(bounds.maxX - bounds.minX)
          \o writeUint32(bounds.maxY - bounds.minY)
          \o writeUint32(bounds.minX)
          \o writeUint32(bounds.minY)
          \o writeUint16(a.Delay[frameIndex + 1])
          \o writeUint16(delayDen)
          \o (IF ~a.Disposal.isNil /\ a.Disposal.bytes[frameIndex + 1] \in {0, 1, 2}
              THEN <<a.Disposal.bytes[frameIndex + 1]>> ELSE <<0>>)
          \o <<0>>)

\* fcTLPayload with the region of frame 0 and the first delay for every frame
fcTLPayloadOfFirstFrame(en, frameIndex) ==
    Bind(a.Image[1].bounds, LAMBDA bounds :
        writeUint32(en.seqNum)
          \o writeUint32(bounds.maxX - bounds.minX)
          \o writeUint32(bounds.maxY - bounds.minY)
          \o writeUint32(bounds.minX)
          \o writeUint32(bounds.minY)
          \o writeUint16(a.Delay[1])
          \o writeUint16(delayDen)
          \o <<0>>
          \o <<0>>)

\* the 26 bytes writefcTL puts in e.tmp
fcTLPayload(en, frameIndex) ==
    Bind(a.Image[frameIndex + 1].bounds, LAMBDA bounds :
        writeUint32(en.seqNum)
          \o writeUint32(bounds.maxX - bounds.minX)
          \o writeUint32(bounds.maxY - bounds.minY)
          \o writeUint32(bounds.minX)
          \o writeUint32(bounds.minY)
          \o writeUint16(a.Delay[frameIndex + 1])
          \o writeUint16(delayDen)
          \o <<0>>
          \o <<0>>)

\* writefcTL without e.seqNum++
writefcTLNoIncrement(en, frameIndex) ==
    Bind(fcTLPayload(en, frameIndex), LAMBDA t :
      writeChunk([en EXCEPT !.tmp = t], SubSeq(t, 1, 26), fcTL))

writefcTL(en, frameIndex) ==
    Bind(fcTLPayload(en, frameIndex), LAMBDA t :
    Bind(writeChunk([en EXCEPT !.tmp = t], SubSeq(t, 1, 26), fcTL), LAMBDA e1 :
      [e1 EXCEPT !.seqNum = @ + 1]))

RECURSIVE writeIDATsFrom(_, _)
writeIDATsFrom(en, j) ==
    IF j > Len(en.idats) THEN en
    ELSE Bind(writeChunk(en, en.idats[j], IDAT), LAMBDA e1 : writeIDATsFrom(e1, j + 1))

writeIDATs(en) == writeIDATsFrom(en, 1)

\* One pass of the loop of writefdATs, for a payload make([]byte, 4, len(id))
\* accepts.
writefdAT(en, id) ==
    Bind(writeUint32(en.seqNum) \o SubSeq(en.tmp, 5, encoderTmpLen), LAMBDA t :
    Bind(append(SubSeq(t, 1, 4), id), LAMBDA fdat :
    Bind(writeChunk([en EXCEPT !.tmp = t], fdat, fdAT), LAMBDA e1 :
      [e1 EXCEPT !.seqNum = @ + 1])))

\* make([]byte, 4, len(id)) panics when len(id) < 4
makeslicePanics(id) == len(id)[1] = 0 /\ len(id)[2] < 4

RECURSIVE writefdATsFrom(_, _)
writefdATsFrom(en, j) ==
    IF j > Len(en.idats) THEN [e |-> en, panic |-> NoErr]
    ELSE IF makeslicePanics(en.idats[j])
    THEN [e |-> [en EXCEPT !.tmp = writeUint32(en.seqNum) \o SubSeq(en.tmp, 5, encoderTmpLen)],
          panic |-> PanicMakeslice]
    ELSE Bind(writefdAT(en, en.idats[j]), LAMBDA e1 : writefdATsFrom(e1, j + 1))

writefdATs(en) == writefdATsFrom(en, 1)

writeIEND(en) == writeChunk(en, <<>>, IEND)
(***************************************************************************)
(* Standalone PNG buffers, as the single-image codec lays them out:        *)
(* signature, IHDR, PLTE and tRNS when the image has a palette, the IDAT   *)
(* chunks, IEND.  A description names the payloads; pngBytes is the buffer.*)
(***************************************************************************)
pngChunk(name, payload) ==
    Bind(payload, LAMBDA p : writeUint32(Len(p)) \o name \o p \o chunkCrc(name, p))

RECURSIVE pngChunks(_, _)
pngChunks(name, payloads) ==
    IF payloads = <<>> THEN <<>>
    ELSE pngChunk(name, Head(payloads)) \o pngChunks(name, Tail(payloads))

\* the bytes of an image-data payload: n bytes that differ by position and by chunk
zdata(n, seed) == [k \in 1..n |-> (16 * seed + 7 * k) % 256]

RECURSIVE zdatas(_, _)
zdatas(lens, seed) ==
    IF lens = <<>> THEN <<>>
    ELSE <<zdata(Head(lens), seed)>> \o zdatas(Tail(lens), seed + 1)

pngBytes(d) ==
    Bind(pngHeader
           \o pngChunk(IHDR, d.ihdr)
           \o (IF d.plte >= 0 THEN pngChunk(PLTE, zdata(d.plte, 9)) ELSE <<>>)
           \o (IF d.trns >= 0 THEN pngChunk(tRNS, zdata(d.trns, 11)) ELSE <<>>)
           \o pngChunks(IDAT, d.idats)
           \o (IF d.iend THEN pngChunk(IEND, <<>>) ELSE <<>>),
         LAMBDA full : SubSeq(full, 1, Len(full) - d.cut))

(***************************************************************************)
(* Images.  An element of APNG.Image points at an image.Image interface    *)
(* value: nil, or a raster with a color model and bounds.  idatLens stands *)
(* for the pixels: the lengths of the IDAT payloads their compression      *)
(* gives.                                                                  *)
(***************************************************************************)
Rect(x0, y0, x1, y1) == [minX |-> x0, minY |-> y0, maxX |-> x1, maxY |-> y1]

Img(cm, b, lens) == [isNil |-> FALSE, cm |-> cm, bounds |-> b, idatLens |-> lens]

NilImage == [isNil |-> TRUE, cm |-> "", bounds |-> Rect(0, 0, 0, 0), idatLens |-> <<>>]

\* image.Paletted's ColorModel() is its color.Palette, a slice
isPalette(cm) == cm \in {"Palette1", "Palette4"}
paletteLen(cm) == IF cm = "Palette1" THEN 1 ELSE 4

colorType(cm) == IF cm = "Gray" THEN 0 ELSE IF isPalette(cm) THEN 3 ELSE 6

Dx(b) == b.maxX - b.minX
Dy(b) == b.maxY - b.minY

\* png.Encode(bb, *img): the codec refuses an image without pixels
pngDescription(img) ==
    [ihdr  |-> writeUint32(Dx(img.bounds)) \o writeUint32(Dy(img.bounds))
                 \o <<8, colorType(img.cm), 0, 0, 0>>,
     plte  |-> IF isPalette(img.cm) THEN 3 * paletteLen(img.cm) ELSE -1,
     trns  |-> -1,
     idats |-> zdatas(img.idatLens, 1),
     iend  |-> TRUE,
     cut   |-> 0]

pngEncode(img) ==
    IF Dx(img.bounds) <= 0 \/ Dy(img.bounds) <= 0
    THEN [err |-> ErrPngEncode, bb |-> <<>>]
    ELSE [err |-> NoErr, bb |-> pngBytes(pngDescription(img))]

(***************************************************************************)
(* chunkFetcher                                                            *)
(***************************************************************************)
\* bytes.Buffer.Next(n)
Next_(bb, n) == IF n >= Len(bb) THEN <<>> ELSE SubSeq(bb, n + 1, Len(bb))

\* io.ReadFull(bb, buf) with len(buf) = n
ReadFull(bb, n) ==
    IF n = 0 THEN [bb |-> bb, data |-> <<>>, err |-> NoErr]
    ELSE IF Len(bb) = 0 THEN [bb |-> bb, data |-> <<>>, err |-> EOF]
    ELSE IF Len(bb) < n THEN [bb |-> <<>>, data |-> bb, err |-> ErrUnexpectedEOF]
    ELSE [bb |-> Next_(bb, n), data |-> SubSeq(bb, 1, n), err |-> NoErr]

\* new(pngChunk)
newPngChunk == [ihdr |-> <<>>, idats |-> <<>>]

newChunkFetcher(bb) == [bb |-> bb, stage |-> dsStart, pc |-> newPngChunk]

\* c.tmp[:length] panics when length exceeds the scratch array
parseIHDR(cf, length) ==
    IF length > fetcherTmpLen THEN [c |-> cf, err |-> PanicSliceBounds]
    ELSE Bind(ReadFull(cf.bb, length), LAMBDA r :
           IF r.err # NoErr THEN [c |-> [cf EXCEPT !.bb = r.bb], err |-> r.err]
           ELSE [c |-> [cf EXCEPT !.bb = r.bb, !.pc.ihdr = r.data], err |-> NoErr])

\* parseIDAT keeping only the payload it has just read
parseIDATKeepsLast(cf, length) ==
    IF Len(cf.bb) < length THEN [c |-> [cf EXCEPT !.bb = <<>>], err |-> EOF]
    ELSE [c |-> [cf EXCEPT !.bb = Next_(cf.bb, length),
                           !.pc.idats = <<SubSeq(cf.bb, 1, length)>>],
          err |-> NoErr]

parseIDAT(cf, length) ==
    IF Len(cf.bb) < length THEN [c |-> [cf EXCEPT !.bb = <<>>], err |-> EOF]
    ELSE [c |-> [cf EXCEPT !.bb = Next_(cf.bb, length),
                           !.pc.idats = Append(@, SubSeq(cf.bb, 1, length))],
          err |-> NoErr]

parseIEND(cf, length) == [c |-> cf, err |-> NoErr]

\* the switch of parsePNGChunk; cf has the 8-byte prefix consumed
dispatch(cf, name, length) ==
    IF name = IHDR THEN parseIHDR([cf EXCEPT !.stage = dsSeenIHDR], length)
    ELSE IF name = PLTE THEN [c |-> cf, err |-> NoErr]
    ELSE IF name = tRNS THEN [c |-> cf, err |-> NoErr]
    ELSE IF name = IDAT THEN parseIDAT([cf EXCEPT !.stage = dsSeenIDAT], length)
    ELSE IF name = IEND THEN parseIEND([cf EXCEPT !.stage = dsSeenIEND], length)
    ELSE [c |-> cf, err |-> NoErr]

\* parsePNGChunk reading the 8-byte prefix without taking it off the buffer
parsePNGChunkPeeks(cf) ==
    Bind(ReadFull(cf.bb, 8), LAMBDA r :
      IF r.err # NoErr THEN [c |-> [cf EXCEPT !.bb = r.bb], err |-> r.err]
      ELSE
        Bind(dispatch(cf, SubSeq(r.data, 5, 8), Uint32(SubSeq(r.data, 1, 4))),
             LAMBDA p :
               IF p.err \in Panics THEN p
               ELSE [c |-> [p.c EXCEPT !.bb = Next_(@, 4)], err |-> p.err]))

parsePNGChunk(cf) ==
    Bind(ReadFull(cf.bb, 8), LAMBDA r :
      IF r.err # NoErr THEN [c |-> [cf EXCEPT !.bb = r.bb], err |-> r.err]
      ELSE
        Bind(dispatch([cf EXCEPT !.bb = r.bb], SubSeq(r.data, 5, 8),
                      Uint32(SubSeq(r.data, 1, 4))),
             LAMBDA p :
               IF p.err \in Panics THEN p
               ELSE [c |-> [p.c EXCEPT !.bb = Next_(@, 4)], err |-> p.err]))

\* the loop of fetchPNGChunk handing on the error of a pass as it is
fetchErrorKeepsEOF(err) == err

\* what the loop of fetchPNGChunk returns when a pass fails
fetchError(err) == IF err = EOF THEN ErrUnexpectedEOF ELSE err

RECURSIVE fetchLoop(_)
fetchLoop(cf) ==
    IF cf.stage = dsSeenIEND THEN [pc |-> cf.pc, err |-> NoErr]
    ELSE Bind(parsePNGChunk(cf), LAMBDA r :
           IF r.err # NoErr THEN [pc |-> newPngChunk, err |-> fetchError(r.err)]
           ELSE fetchLoop(r.c))

fetchPNGChunk(bb) ==
    Bind(newChunkFetcher(Next_(bb, Len(pngHeader))), LAMBDA cf : fetchLoop(cf))
(***************************************************************************)
(* Frame validation                                                        *)
(***************************************************************************)
\* The loop of isSameColorModel from index j (1-based).  Comparing two
\* interface values that both hold a color.Palette panics.
RECURSIVE sameColorModelFrom(_, _)
sameColorModelFrom(img, j) ==
    IF j > Len(img) THEN "true"
    ELSE IF img[j].isNil THEN "false"
    ELSE IF isPalette(img[j].cm) /\ isPalette(img[1].cm) THEN PanicUncomparable
    ELSE IF img[j].cm # img[1].cm THEN "false"
    ELSE sameColorModelFrom(img, j + 1)

isSameColorModel(img) ==
    IF Len(img) = 0 \/ img[1].isNil THEN "false" ELSE sameColorModelFrom(img, 2)

fullfillFrameRegionConstraints(img) ==
    IF Len(img) = 0 \/ img[1].isNil THEN FALSE
    ELSE LET reference == img[1].bounds
         IN  /\ reference.minX >= 0 /\ reference.minY >= 0
             /\ \A j \in 2..Len(img) :
                  /\ ~img[j].isNil
                  /\ img[j].bounds.minX >= 0 /\ img[j].bounds.minY >= 0
                  /\ img[j].bounds.maxX <= reference.maxX
                  /\ img[j].bounds.maxY <= reference.maxY

\* the checks that open EncodeAll: the error returned, a panic, or NoErr
validate(ap) ==
    IF Len(ap.Image) = 0 THEN ErrNoImage
    ELSE IF Len(ap.Image) # Len(ap.Delay) THEN ErrDelayLen
    ELSE IF ~ap.Disposal.isNil /\ Len(ap.Image) # Len(ap.Disposal.bytes) THEN ErrDisposalLen
    ELSE Bind(isSameColorModel(ap.Image), LAMBDA same :
           IF same \in Panics THEN same
           ELSE IF same = "false" THEN ErrColorModel
           ELSE IF ~fullfillFrameRegionConstraints(ap.Image) THEN ErrRegion
           ELSE NoErr)

(***************************************************************************)
(* The animations drawn.                                                   *)
(***************************************************************************)
Images ==
    { Img("RGBA", Rect(0, 0, 2, 2), <<5, 4>>),
      Img("RGBA", Rect(1, 1, 2, 2), <<4>>),
      Img("RGBA", Rect(0, 0, 1, 1), <<4, 2>>),
      Img("RGBA", Rect(0, 0, 3, 2), <<5>>),
      Img("RGBA", Rect(-1, 0, 1, 1), <<4>>),
      Img("RGBA", Rect(0, 0, 0, 0), <<>>),
      Img("Gray", Rect(0, 0, 2, 2), <<5>>),
      Img("Palette1", Rect(0, 0, 2, 2), <<5>>),
      Img("Palette4", Rect(0, 0, 2, 2), <<5>>),
      NilImage }

ImageLists == UNION { [1..n -> Images] : n \in 0..MaxFrames }

Delays(n) == { [j \in 1..n |-> 7 + j], [j \in 1..(n + 1) |-> 7 + j] }

Disposals(n) ==
    { [isNil |-> TRUE, bytes |-> <<>>],
      [isNil |-> FALSE, bytes |-> [j \in 1..n |-> 1 + (j % 2)]],
      [isNil |-> FALSE, bytes |-> [j \in 1..(n + 1) |-> 1]] }

LoopCounts == {0, 3}

APNGsOf(im) ==
    { [Image |-> im, Delay |-> dl, Disposal |-> dp, LoopCount |-> lc] :
        dl \in Delays(Len(im)), dp \in Disposals(Len(im)), lc \in LoopCounts }

APNGs == UNION { APNGsOf(im) : im \in ImageLists }

\* the standalone PNG buffers handed to fetchPNGChunk on its own
Ancillaries == { <<-1, -1>>, <<0, -1>>, <<3, -1>>, <<12, -1>>, <<3, 1>>, <<-1, 2>> }

IdatLens == { <<>>, <<0>>, <<1>>, <<5>>, <<4, 2>> }

PNGInputs ==
    { [ihdr  |-> writeUint32(2) \o writeUint32(2) \o <<8, 6, 0, 0, 0>>,
       plte  |-> an[1], trns |-> an[2], idats |-> zdatas(lens, 1),
       iend  |-> ie, cut |-> k] :
        an \in Ancillaries, lens \in IdatLens, ie \in BOOLEAN, k \in 0..MaxCut }

NoPNG == [ihdr |-> <<>>, plte |-> -1, trns |-> -1, idats |-> <<>>, iend |-> FALSE, cut |-> 0]

NoAPNG == [Image |-> <<>>, Delay |-> <<>>, Disposal |-> [isNil |-> TRUE, bytes |-> <<>>],
           LoopCount |-> 0]

newSink == [log |-> <<>>, failIn |-> 0]

\* a call of EncodeAll that has not taken a step
newCall(ap) ==
    [a |-> ap, e |-> newEncoder(newSink), pc |-> "start", i |-> 0, ret |-> "running"]

\* no second call is made
NoCall == [newCall(NoAPNG) EXCEPT !.pc = "none"]

(***************************************************************************)
(* EncodeAll, step by step.  Every step that writes draws what the sink    *)
(* does during it: k = 0, every Write succeeds; k > 0, the k-th Write call *)
(* of the step returns SinkErr.                                            *)
(***************************************************************************)
arm(en, k) == [en EXCEPT !.w.failIn = k]
disarm(en) == [en EXCEPT !.w.failIn = 0]

Init ==
    /\ a \in APNGs
    /\ e = newEncoder(newSink)
    /\ pc = "start"
    /\ i = 0
    /\ ret = "running"
    /\ png = NoPNG
    /\ c = newChunkFetcher(<<>>)
    /\ fret = [pc |-> newPngChunk, err |-> "running"]
    /\ other = NoCall

\* lines 333-356: the checks, then the encoder is made
Validate ==
    /\ pc = "start"
    /\ \E v \in {validate(a)} :
         IF v = NoErr
         THEN /\ pc' = "signature"
              /\ ret' = ret
         ELSE /\ pc' = "done"
              /\ ret' = v
    /\ e' = newEncoder(e.w)
    /\ UNCHANGED <<a, i, png, c, fret, other>>

WriteSignature ==
    /\ pc = "signature"
    /\ \E k \in 0..1 : e' = disarm(writeSignature(arm(e, k)))
    /\ pc' = "frame"
    /\ UNCHANGED <<a, i, ret, png, c, fret, other>>

\* EncodeFrame leaving the frame loop on a failure instead of returning
EncodeFrameBreaks ==
    /\ pc = "frame"
    /\ i < Len(a.Image)
    /\ \E enc \in {pngEncode(a.Image[i + 1])} :
       \E f \in {fetchPNGChunk(enc.bb)} :
         IF enc.err # NoErr \/ f.err # NoErr
         THEN /\ ret' = ret
              /\ pc' = "IEND"
              /\ e' = e
         ELSE /\ ret' = ret
              /\ pc' = IF i = 0 THEN "IHDR" ELSE "fcTL"
              /\ e' = [e EXCEPT !.ihdr = f.pc.ihdr, !.idats = f.pc.idats]
    /\ UNCHANGED <<a, i, png, c, fret, other>>

\* lines 359-370: png.Encode, fetchPNGChunk, e.ihdr and e.idats
EncodeFrame ==
    /\ pc = "frame"
    /\ i < Len(a.Image)
    /\ \E enc \in {pngEncode(a.Image[i + 1])} :
       \E f \in {fetchPNGChunk(enc.bb)} :
         IF enc.err # NoErr
         THEN /\ ret' = enc.err
              /\ pc' = "done"
              /\ e' = e
         ELSE IF f.err # NoErr
         THEN /\ ret' = f.err
              /\ pc' = "done"
              /\ e' = e
         ELSE /\ ret' = ret
              /\ pc' = IF i = 0 THEN "IHDR" ELSE "fcTL"
              /\ e' = [e EXCEPT !.ihdr = f.pc.ihdr, !.idats = f.pc.idats]
    /\ UNCHANGED <<a, i, png, c, fret, other>>

WriteIHDR ==
    /\ pc = "IHDR"
    /\ \E k \in 0..3 : e' = disarm(writeIHDR(arm(e, k)))
    /\ pc' = "acTL"
    /\ UNCHANGED <<a, i, ret, png, c, fret, other>>

WriteacTL ==
    /\ pc = "acTL"
    /\ \E k \in 0..3 : e' = disarm(writeacTL(arm(e, k)))
    /\ pc' = "fcTL"
    /\ UNCHANGED <<a, i, ret, png, c, fret, other>>

WritefcTL ==
    /\ pc = "fcTL"
    /\ \E k \in 0..3 : e' = disarm(writefcTL(arm(e, k), i))
    /\ pc' = IF i = 0 THEN "IDATs" ELSE "fdATs"
    /\ UNCHANGED <<a, i, ret, png, c, fret, other>>

\* the end of one pass of the frame loop
nextFrame ==
    /\ i' = i + 1
    /\ pc' = IF i + 1 < Len(a.Image) THEN "frame" ELSE "IEND"

WriteIDATs ==
    /\ pc = "IDATs"
    /\ \E k \in 0..(3 * Len(e.idats)) : e' = disarm(writeIDATs(arm(e, k)))
    /\ nextFrame
    /\ UNCHANGED <<a, ret, png, c, fret, other>>

WritefdATs ==
    /\ pc = "fdATs"
    /\ \E k \in 0..(3 * Len(e.idats)) :
         \E r \in {writefdATs(arm(e, k))} :
           /\ e' = disarm(r.e)
           /\ IF r.panic # NoErr
              THEN /\ ret' = r.panic
                   /\ pc' = "done"
                   /\ i' = i
              ELSE /\ ret' = ret
                   /\ nextFrame
    /\ UNCHANGED <<a, png, c, fret, other>>

\* lines 383-384: e.writeIEND(); return e.err
WriteIEND ==
    /\ pc = "IEND"
    /\ \E k \in 0..3 : e' = disarm(writeIEND(arm(e, k)))
    /\ ret' = e'.err
    /\ pc' = "done"
    /\ UNCHANGED <<a, i, png, c, fret, other>>

Next ==
    \/ Validate
    \/ WriteSignature
    \/ EncodeFrame
    \/ WriteIHDR
    \/ WriteacTL
    \/ WritefcTL
    \/ WriteIDATs
    \/ WritefdATs
    \/ WriteIEND

Spec == Init /\ [][Next]_vars

(***************************************************************************)
(* fetchPNGChunk on its own, one pass of its loop per step, and then the   *)
(* single-frame reassembly of what it extracted: signature, writeIHDR,     *)
(* writeIDATs, writeIEND on a sink that never fails.                       *)
(***************************************************************************)
InitFetch ==
    /\ png \in PNGInputs
    /\ c = newChunkFetcher(pngBytes(png))
    /\ pc = "fetch"
    /\ fret = [pc |-> newPngChunk, err |-> "running"]
    /\ a = NoAPNG
    /\ e = newEncoder(newSink)
    /\ i = 0
    /\ ret = "running"
    /\ other = NoCall

\* lines 268-273: bb.Next(len(pngHeader)); c := &chunkFetcher{...}
FetchStart ==
    /\ pc = "fetch"
    /\ c' = newChunkFetcher(Next_(c.bb, Len(pngHeader)))
    /\ pc' = "loop"
    /\ UNCHANGED <<a, e, i, ret, png, fret, other>>

\* lines 275-282: one pass of the loop
FetchPass ==
    /\ pc = "loop"
    /\ c.stage # dsSeenIEND
    /\ \E r \in {parsePNGChunk(c)} :
         /\ c' = r.c
         /\ IF r.err # NoErr
            THEN /\ fret' = [pc |-> newPngChunk, err |-> fetchError(r.err)]
                 /\ pc' = "fetched"
            ELSE /\ fret' = fret
                 /\ pc' = pc
    /\ UNCHANGED <<a, e, i, ret, png, other>>

\* line 283: return c.pc, nil
FetchReturn ==
    /\ pc = "loop"
    /\ c.stage = dsSeenIEND
    /\ fret' = [pc |-> c.pc, err |-> NoErr]
    /\ pc' = "fetched"
    /\ UNCHANGED <<a, e, i, ret, png, c, other>>

Reassemble ==
    /\ pc = "fetched"
    /\ fret.err = NoErr
    /\ \E e1 \in {writeSignature([e EXCEPT !.ihdr = fret.pc.ihdr, !.idats = fret.pc.idats])} :
       \E e2 \in {writeIHDR(e1)} :
       \E e3 \in {writeIDATs(e2)} :
         e' = writeIEND(e3)
    /\ pc' = "reassembled"
    /\ UNCHANGED <<a, i, ret, png, c, fret, other>>

NextFetch ==
    \/ FetchStart
    \/ FetchPass
    \/ FetchReturn
    \/ Reassemble

SpecFetch == InitFetch /\ [][NextFetch]_vars

\* the loop of fetchPNGChunk is straight-line code: a step that can be taken
\* is taken
SpecFetchFair == InitFetch /\ [][NextFetch]_vars /\ WF_vars(NextFetch)

(***************************************************************************)
(* EncodeAll with the payloads of the later frames drawn: what               *)
(* fetchPNGChunk hands over for a frame is a list of payloads of any length  *)
(* a 32-bit length field can declare.  Frame 0 goes through the codec and    *)
(* the Chunk Reader as in EncodeFrame.                                       *)
(***************************************************************************)
\* payloads of 2^32 - 4 and of 2^32 - 1 bytes
hugeMin == hugePayload(65535, 65532)
hugeMax == hugePayload(65535, 65535)

ExtractedIdats ==
    { <<zdata(5, 1)>>,
      <<hugeMin>>,
      <<hugeMax>>,
      <<zdata(5, 1), hugeMin>>,
      <<hugeMin, zdata(5, 2)>>,
      <<hugeMin, zdata(2, 2)>> }

LargeAPNGs ==
    { ap \in APNGs :
        /\ Len(ap.Image) >= 2
        /\ validate(ap) = NoErr
        /\ \A j \in 1..Len(ap.Image) :
             /\ pngEncode(ap.Image[j]).err = NoErr
             /\ fetchPNGChunk(pngEncode(ap.Image[j]).bb).err = NoErr }

InitLarge ==
    /\ a \in LargeAPNGs
    /\ e = newEncoder(newSink)
    /\ pc = "start"
    /\ i = 0
    /\ ret = "running"
    /\ png = NoPNG
    /\ c = newChunkFetcher(<<>>)
    /\ fret = [pc |-> newPngChunk, err |-> "running"]
    /\ other = NoCall

\* lines 359-370 for a frame that encodes and decomposes
ExtractFrame ==
    /\ pc = "frame"
    /\ i < Len(a.Image)
    /\ \E f \in {fetchPNGChunk(pngEncode(a.Image[i + 1]).bb)} :
       \E ids \in (IF i = 0 THEN {f.pc.idats} ELSE ExtractedIdats) :
         e' = [e EXCEPT !.ihdr = f.pc.ihdr, !.idats = ids]
    /\ pc' = IF i = 0 THEN "IHDR" ELSE "fcTL"
    /\ UNCHANGED <<a, i, ret, png, c, fret, other>>

NextLarge ==
    \/ Validate
    \/ WriteSignature
    \/ ExtractFrame
    \/ WriteIHDR
    \/ WriteacTL
    \/ WritefcTL
    \/ WriteIDATs
    \/ WritefdATs
    \/ WriteIEND

SpecLarge == InitLarge /\ [][NextLarge]_vars

(***************************************************************************)
(* Two EncodeAll calls, each with its own sink.  The variables a, e, pc, i *)
(* and ret are those of the call taking steps, other holds the call that   *)
(* waits; Switch hands the processor over, at any point of either call.    *)
(* Each call has its encoder as a local variable (line 353).               *)
(***************************************************************************)
TwoCallAPNGs ==
    { ap \in APNGs :
        /\ ap.Disposal.isNil
        /\ ap.Delay = [j \in 1..Len(ap.Image) |-> 7 + j]
        /\ \/ /\ ap.Image = <<Img("RGBA", Rect(0, 0, 3, 2), <<5>>),
                                Img("RGBA", Rect(1, 1, 2, 2), <<4>>)>>
              /\ ap.LoopCount = 0
           \/ /\ ap.Image = <<Img("Gray", Rect(0, 0, 2, 2), <<5>>)>>
              /\ ap.LoopCount = 3
           \/ /\ ap.Image = <<Img("RGBA", Rect(0, 0, 3, 2), <<5>>),
                                Img("RGBA", Rect(0, 0, 0, 0), <<>>)>>
              /\ ap.LoopCount = 0 }

InitTwo ==
    /\ a \in TwoCallAPNGs
    /\ e = newEncoder(newSink)
    /\ pc = "start"
    /\ i = 0
    /\ ret = "running"
    /\ png = NoPNG
    /\ c = newChunkFetcher(<<>>)
    /\ fret = [pc |-> newPngChunk, err |-> "running"]
    /\ \E ap \in TwoCallAPNGs : other = newCall(ap)

\* Switch with the sequence counter and the sticky error kept in one place
\* for all calls
SwitchSharedEncoder ==
    /\ other.pc # "none"
    /\ a' = other.a
    /\ e' = [other.e EXCEPT !.seqNum = e.seqNum, !.err = e.err]
    /\ pc' = other.pc
    /\ i' = other.i
    /\ ret' = other.ret
    /\ other' = [a |-> a, e |-> e, pc |-> pc, i |-> i, ret |-> ret]
    /\ UNCHANGED <<png, c, fret>>

\* the other call goes on; the locals of this one (a, e, i) wait with it
Switch ==
    /\ other.pc # "none"
    /\ a' = other.a
    /\ e' = other.e
    /\ pc' = other.pc
    /\ i' = other.i
    /\ ret' = other.ret
    /\ other' = [a |-> a, e |-> e, pc |-> pc, i |-> i, ret |-> ret]
    /\ UNCHANGED <<png, c, fret>>

NextTwo ==
    \/ Validate
    \/ WriteSignature
    \/ EncodeFrame
    \/ WriteIHDR
    \/ WriteacTL
    \/ WritefcTL
    \/ WriteIDATs
    \/ WritefdATs
    \/ WriteIEND
    \/ Switch

SpecTwo == InitTwo /\ [][NextTwo]_vars

(***************************************************************************)
(* EncodeAll from its first line to its return, on a sink whose failAt-th  *)
(* Write call fails (failAt = 0: none does).                               *)
(***************************************************************************)
\* lines 359-382: the frame loop from frame j on; ret = "running" when the
\* loop has ended without a return
RECURSIVE frameLoop(_, _)
frameLoop(en, j) ==
    IF j >= Len(a.Image) THEN [e |-> en, ret |-> "running"]
    ELSE
      Bind(pngEncode(a.Image[j + 1]), LAMBDA enc :
        IF enc.err # NoErr THEN [e |-> en, ret |-> enc.err]
        ELSE
          Bind(fetchPNGChunk(enc.bb), LAMBDA f :
            IF f.err # NoErr THEN [e |-> en, ret |-> f.err]
            ELSE
              Bind([en EXCEPT !.ihdr = f.pc.ihdr, !.idats = f.pc.idats], LAMBDA e0 :
                IF j = 0
                THEN Bind(writeIHDR(e0), LAMBDA e1 :
                     Bind(writeacTL(e1), LAMBDA e2 :
                     Bind(writefcTL(e2, j), LAMBDA e3 :
                     Bind(writeIDATs(e3), LAMBDA e4 : frameLoop(e4, j + 1)))))
                ELSE Bind(writefcTL(e0, j), LAMBDA e1 :
                     Bind(writefdATs(e1), LAMBDA r :
                       IF r.panic # NoErr THEN [e |-> r.e, ret |-> r.panic]
                       ELSE frameLoop(r.e, j + 1))))))

EncodeAll(failAt) ==
    Bind(validate(a), LAMBDA v :
      IF v # NoErr THEN [log |-> <<>>, ret |-> v]
      ELSE
        Bind(writeSignature(newEncoder([log |-> <<>>, failIn |-> failAt])), LAMBDA e0 :
        Bind(frameLoop(e0, 0), LAMBDA r :
          IF r.ret # "running" THEN [log |-> r.e.w.log, ret |-> r.ret]
          ELSE Bind(writeIEND(r.e), LAMBDA e1 : [log |-> e1.w.log, ret |-> e1.err]))))

(***************************************************************************)
(* Reading the sink.  EncodeAll writes the signature in one Write call and *)
(* every chunk in three: prefix, payload, CRC.                             *)
(***************************************************************************)
log == e.w.log

sinkFailed == \E k \in 1..Len(log) : ~log[k].ok

\* the chunks whose three writes were all made
nChunks == (Len(log) - 1) \div 3
chunkPrefix(k) == log[3 * k - 1].data
chunkTag(k) == SubSeq(log[3 * k - 1].data, 5, 8)
chunkPayload(k) == log[3 * k].data
chunkFooter(k) == log[3 * k + 1].data
chunkTags == [k \in 1..nChunks |-> chunkTag(k)]

RECURSIVE concatData(_, _)
concatData(l, k) == IF k > Len(l) THEN <<>> ELSE l[k].data \o concatData(l, k + 1)
sinkBytes == concatData(log, 1)

Repeat(x, n) == [k \in 1..n |-> x]

\* what the codec and the Chunk Reader give for frame j (1-based)
extracted(j) == fetchPNGChunk(pngEncode(a.Image[j]).bb)

framesExtract ==
    \A j \in 1..Len(a.Image) :
        pngEncode(a.Image[j]).err = NoErr /\ extracted(j).err = NoErr

\* the tags of the chunk group of frames j..N
RECURSIVE groupTags(_)
groupTags(j) ==
    IF j > Len(a.Image) THEN <<>>
    ELSE <<fcTL>> \o Repeat(IF j = 1 THEN IDAT ELSE fdAT, Len(extracted(j).pc.idats))
           \o groupTags(j + 1)

expectedTags == <<IHDR, acTL>> \o groupTags(1) \o <<IEND>>

\* C1 (as claimed): a validated animation whose frames all encode and
\* decompose, on a sink that never fails, ends with the sink holding the
\* signature, IHDR, acTL, [fcTL, IDAT...] for frame 0, [fcTL, fdAT...] for each
\* later frame in order, IEND, and nothing else.
C1_ChunkOrder ==
    (pc = "done" /\ validate(a) = NoErr /\ framesExtract /\ ~sinkFailed)
        => /\ ret = NoErr
           /\ Len(log) = 3 * nChunks + 1
           /\ log[1].data = pngHeader
           /\ chunkTags = expectedTags

\* the animation-sequence chunks, in stream order
animChunks == { k \in 1..nChunks : chunkTag(k) \in {fcTL, fdAT} }
rank(k) == Cardinality({ m \in animChunks : m < k })

\* C2: a successful call leaves exactly N fcTL chunks, and the k-th chunk
\* among the fcTL and fdAT chunks carries sequence number k.
C2_SequenceNumbers ==
    (pc = "done" /\ ret = NoErr)
        => /\ Cardinality({ k \in 1..nChunks : chunkTag(k) = fcTL }) = Len(a.Image)
           /\ \A k \in animChunks : SubSeq(chunkPayload(k), 1, 4) = writeUint32(rank(k))

C2_Witness ==
    /\ pc = "done" /\ ret = NoErr
    /\ Cardinality(animChunks) >= 4
    /\ \E k \in animChunks : chunkTag(k) = fdAT /\ k + 1 \in animChunks

\* the structural rules of the Frame Validator, as the specification lists them
breaksRule(ap) ==
    \/ Len(ap.Image) = 0
    \/ Len(ap.Image) # Len(ap.Delay)
    \/ (~ap.Disposal.isNil /\ Len(ap.Disposal.bytes) # Len(ap.Image))
    \/ \E j \in 1..Len(ap.Image) : ap.Image[j].isNil
    \/ \E j, k \in 1..Len(ap.Image) :
         ~ap.Image[j].isNil /\ ~ap.Image[k].isNil /\ ap.Image[j].cm # ap.Image[k].cm
    \/ \E j \in 1..Len(ap.Image) :
         ~ap.Image[j].isNil
           /\ (ap.Image[j].bounds.minX < 0 \/ ap.Image[j].bounds.minY < 0)
    \/ \E j \in 2..Len(ap.Image) :
         ~ap.Image[1].isNil /\ ~ap.Image[j].isNil
           /\ (\/ ap.Image[j].bounds.maxX > ap.Image[1].bounds.maxX
               \/ ap.Image[j].bounds.maxY > ap.Image[1].bounds.maxY)

ValidationErrors == {ErrNoImage, ErrDelayLen, ErrDisposalLen, ErrColorModel, ErrRegion}

\* C3 (as claimed): an animation that breaks a structural rule makes
\* EncodeAll return an error, with not a single write made to the sink.
C3_RejectsBeforeWriting ==
    (pc # "start" /\ breaksRule(a)) => (ret \in ValidationErrors /\ log = <<>>)

\* C4: once a Write call on the sink has failed, EncodeAll makes no further
\* Write call: a failed write is the last entry of the log, in every state.
C4_NoWriteAfterFailure ==
    \A k \in 1..Len(log) : ~log[k].ok => k = Len(log)

C4_Witness ==
    /\ pc = "done"
    /\ Len(a.Image) = 2
    /\ Len(log) = 6 /\ ~log[6].ok

\* C5 (as claimed): when a Write call on the sink failed, EncodeAll returns
\* the sink's error, whatever happens to the remaining frames.
C5_ReturnsSinkError ==
    (pc = "done" /\ sinkFailed) => ret = SinkErr

\* the chunks whose payload write was made
nPayloads == Len(log) \div 3

\* C6: in every fcTL chunk written, the dispose_op byte (offset 24) and the
\* blend_op byte (offset 25) are 0, whatever the caller's Disposal list holds.
C6_DisposeBlendZero ==
    \A k \in 1..nPayloads :
        chunkTag(k) = fcTL
            => /\ Len(chunkPayload(k)) = 26
               /\ chunkPayload(k)[25] = 0
               /\ chunkPayload(k)[26] = 0

C6_Witness ==
    /\ ~a.Disposal.isNil
    /\ \E k \in 2..nPayloads :
         /\ chunkTag(k) = fcTL
         /\ chunkTag(3) = fcTL /\ k > 3
         /\ a.Disposal.bytes[1] # 0 /\ a.Disposal.bytes[2] # 0

KnownTags == {IHDR, acTL, fcTL, IDAT, fdAT, IEND}

\* the IEND chunk of every PNG file: 00 00 00 00 "IEND" ae 42 60 82
IENDChunk == <<0, 0, 0, 0, 73, 69, 78, 68, 174, 66, 96, 130>>

\* C7: every chunk of a finished call whose three writes were made is laid
\* out as length (the payload's byte count), tag, payload, CRC32 over the tag
\* and the payload of that same chunk.
C7_ChunkLayout ==
    pc = "done"
        => \A k \in 1..nChunks :
             /\ Len(chunkPrefix(k)) = 8
             /\ SubSeq(chunkPrefix(k), 1, 4) = writeUint32(Len(chunkPayload(k)))
             /\ chunkTag(k) \in KnownTags
             /\ chunkFooter(k) = chunkCrc(chunkTag(k), chunkPayload(k))
             /\ chunkTag(k) = IEND
                  => chunkPrefix(k) \o chunkPayload(k) \o chunkFooter(k) = IENDChunk

C7_Witness ==
    /\ pc = "done" /\ ret = NoErr
    /\ \A t \in KnownTags : \E k \in 1..nChunks : chunkTag(k) = t

wellFormedPlain(d) == d.plte = -1 /\ d.trns = -1 /\ d.iend /\ d.cut = 0

\* C8: a standalone PNG buffer made of the signature, IHDR, IDAT chunks and
\* IEND is decomposed without error, and the signature, writeIHDR, writeIDATs
\* and writeIEND on what was extracted give the buffer back byte for byte.
C8_RoundTrip ==
    wellFormedPlain(png)
        => /\ pc = "fetched" => fret.err = NoErr
           /\ pc = "reassembled"
                => /\ ~sinkFailed
                   /\ fret.pc.ihdr = png.ihdr
                   /\ fret.pc.idats = png.idats
                   /\ sinkBytes = pngBytes(png)

C8_Witness ==
    /\ pc = "reassembled"
    /\ wellFormedPlain(png)
    /\ Len(png.idats) = 2
    /\ Len(sinkBytes) > 60

\* the fdAT group of the frame WritefdATs has just left
fdATsWritten == i >= 2 /\ pc \in {"frame", "IEND"}

\* C9 (as claimed): for a later frame, writefdATs emits one fdAT chunk per
\* extracted payload of any length, sequence number first and the payload
\* after it, and does not crash.
C9_FdATPerPayload ==
    /\ ret # PanicMakeslice
    /\ (fdATsWritten /\ ~sinkFailed)
         => \A j \in 1..Len(e.idats) :
              LET k == nChunks - Len(e.idats) + j
              IN  /\ chunkTag(k) = fdAT
                  /\ chunkPayload(k)
                       = writeUint32(e.seqNum - Len(e.idats) + j - 1) \o e.idats[j]

withoutAncillary(d) == [d EXCEPT !.plte = -1, !.trns = -1]

\* C10 (as claimed): a PLTE or tRNS chunk of any payload length is skipped:
\* fetchPNGChunk returns what it returns for the buffer without that chunk.
C10_SkipsAncillary ==
    (pc = "fetched" /\ png.iend /\ png.cut = 0 /\ (png.plte >= 0 \/ png.trns >= 0))
        => fret = fetchPNGChunk(pngBytes(withoutAncillary(png)))

\* the payload of the last chunk of a buffer without ancillary chunks and
\* without IEND
lastPayloadLen(d) ==
    IF d.idats = <<>> THEN Len(d.ihdr) ELSE Len(d.idats[Len(d.idats)])

plainNoIEND(d) == d.plte = -1 /\ d.trns = -1 /\ ~d.iend

\* the last chunk declares more payload bytes than remain: the cut removed
\* its CRC and at least one byte of its payload, and left its prefix
payloadTruncated(d) ==
    plainNoIEND(d) /\ d.cut > 4 /\ d.cut - 4 <= lastPayloadLen(d)

\* the buffer ends at a chunk boundary and holds no IEND chunk
endsAtBoundary(d) == plainNoIEND(d) /\ d.cut = 0

uncut(d) == [d EXCEPT !.cut = 0]

\* C11 (as claimed): a buffer whose last chunk declares more payload than
\* remains, and the same buffer ending at the chunk boundary before any IEND,
\* both make fetchPNGChunk fail, and with different error values.
C11_DistinctFailures ==
    (pc = "fetched" /\ payloadTruncated(png))
        => /\ fret.err # NoErr
           /\ fetchPNGChunk(pngBytes(uncut(png))).err # NoErr
           /\ fret.err # fetchPNGChunk(pngBytes(uncut(png))).err

\* C11 (amended): a truncated payload and a buffer that ends at a chunk
\* boundary before IEND both make fetchPNGChunk return no chunks and the one
\* error value io.ErrUnexpectedEOF, never io.EOF.
C11_BothUnexpectedEOF ==
    (pc = "fetched" /\ (payloadTruncated(png) \/ endsAtBoundary(png)))
        => fret = [pc |-> newPngChunk, err |-> ErrUnexpectedEOF]

C11_Witness ==
    /\ pc = "fetched"
    /\ payloadTruncated(png)
    /\ Len(png.idats) = 2
    /\ fret.err = ErrUnexpectedEOF
    /\ fetchPNGChunk(pngBytes(uncut(png))).err = ErrUnexpectedEOF

\* rectangle r lies inside rectangle q
inside(r, q) ==
    /\ r.minX >= q.minX /\ r.minY >= q.minY
    /\ r.maxX <= q.maxX /\ r.maxY <= q.maxY

\* C12 (as claimed): in every animation the Frame Validator accepts, each
\* frame's rectangle lies inside frame 0's rectangle and all minimum
\* coordinates are non-negative, also when frame 0's minimum is above 0.
C12_AcceptedFramesNest ==
    (pc # "start" /\ validate(a) = NoErr)
        => \A j \in 1..Len(a.Image) :
             /\ a.Image[j].bounds.minX >= 0 /\ a.Image[j].bounds.minY >= 0
             /\ inside(a.Image[j].bounds, a.Image[1].bounds)

\* the frame (1-based) the fcTL chunk k belongs to: fcTL chunks come one per
\* frame, in frame order
frameOf(k) == Cardinality({ m \in 1..k : chunkTag(m) = fcTL })

\* C13: the fcTL chunk of frame i has a 26-byte payload that holds, after the
\* sequence number, the width and height Max - Min of frame i's own bounds, its
\* offsets Min.X and Min.Y, delay_num = Delay[i] and delay_den = 100.
C13_FcTLFields ==
    \A k \in 1..nPayloads :
        chunkTag(k) = fcTL
            => /\ Len(chunkPayload(k)) = 26
               /\ frameOf(k) <= Len(a.Image)
               /\ SubSeq(chunkPayload(k), 5, 24)
                    = writeUint32(Dx(a.Image[frameOf(k)].bounds))
                        \o writeUint32(Dy(a.Image[frameOf(k)].bounds))
                        \o writeUint32(a.Image[frameOf(k)].bounds.minX)
                        \o writeUint32(a.Image[frameOf(k)].bounds.minY)
                        \o writeUint16(a.Delay[frameOf(k)])
                        \o writeUint16(100)

C13_Witness ==
    /\ pc = "done" /\ ret = NoErr
    /\ Len(a.Image) = 2
    /\ a.Image[2].bounds.minX > 0
    /\ a.Image[2].bounds # a.Image[1].bounds
    /\ \E k \in 4..nChunks : chunkTag(k) = fcTL /\ chunkPayload(k)[16] = 1

chunksTagged(t) == { k \in 1..nChunks : chunkTag(k) = t }

\* C14: the output of a successful call holds exactly one acTL chunk, right
\* after IHDR and right before the first fcTL; its 8-byte payload is the frame
\* count then the caller's loop count, and the frame count equals len(Image)
\* and the number of fcTL chunks in the output.
C14_OneAcTL ==
    (pc = "done" /\ ret = NoErr)
        => /\ nChunks >= 3
           /\ chunkTag(1) = IHDR /\ chunkTag(2) = acTL /\ chunkTag(3) = fcTL
           /\ chunksTagged(acTL) = {2}
           /\ Len(chunkPayload(2)) = 8
           /\ SubSeq(chunkPayload(2), 1, 4) = writeUint32(Len(a.Image))
           /\ SubSeq(chunkPayload(2), 5, 8) = writeUint32(a.LoopCount)
           /\ Uint32(SubSeq(chunkPayload(2), 1, 4)) = Cardinality(chunksTagged(fcTL))

C14_Witness ==
    /\ pc = "done" /\ ret = NoErr
    /\ Len(a.Image) = 2 /\ a.LoopCount = 3
    /\ chunkPayload(2) = <<0, 0, 0, 2, 0, 0, 0, 3>>

\* the chunks whose prefix write was made
nPrefixes == (Len(log) + 1) \div 3

\* the codec or the Chunk Reader fails on frame j (1-based)
frameFails(j) == pngEncode(a.Image[j]).err # NoErr \/ extracted(j).err # NoErr

\* the call ended in the frame loop at a frame that does not encode or decompose
endedAtFailedFrame ==
    pc = "done" /\ validate(a) = NoErr /\ i < Len(a.Image) /\ frameFails(i + 1)

\* C15: when the encoding or the decomposition of frame i fails, EncodeAll
\* returns an error, and the sink holds no chunk of frame i or of a later
\* frame and no IEND chunk.
C15_AbortsAtFailedFrame ==
    endedAtFailedFrame
        => /\ ret \in {ErrPngEncode, ErrUnexpectedEOF}
           /\ Cardinality({ k \in 1..nPrefixes : chunkTag(k) = fcTL }) <= i
           /\ \A k \in 1..nPrefixes : chunkTag(k) # IEND
           /\ i = 0 => Len(log) <= 1

C15_Witness ==
    /\ endedAtFailedFrame
    /\ i = 1
    /\ ret = ErrPngEncode
    /\ ~sinkFailed
    /\ nChunks >= 4

\* the first payload of ids whose fdAT chunk does not fit a 32-bit length
firstTooLarge(ids) ==
    CHOOSE j \in 1..Len(ids) :
        /\ ~fitsUint32(len(append(<<0, 0, 0, 0>>, ids[j])))
        /\ \A m \in 1..(j - 1) : fitsUint32(len(append(<<0, 0, 0, 0>>, ids[m])))

\* the sink holds whole chunks only, each with the true length of its payload,
\* and no IEND
onlyFittingChunks ==
    /\ Len(log) = 3 * nChunks + 1
    /\ \A k \in 1..nChunks :
         /\ ~isHuge(chunkPayload(k))
         /\ SubSeq(chunkPrefix(k), 1, 4) = writeUint32(Len(chunkPayload(k)))
         /\ chunkTag(k) # IEND

failedAt == IF sinkFailed THEN Len(log) ELSE 0

\* C17: with two EncodeAll calls on separate sinks, run one after the other
\* or interleaved step by step, once both have ended each call has written
\* and returned what it writes and returns when run alone on the same sink;
\* its first fcTL carries sequence number 0.  (Either call can be the one in
\* a, e, pc, i, ret when both have ended.)
C17_CallsIndependent ==
    (pc = "done" /\ other.pc = "done")
        => /\ [log |-> log, ret |-> ret] = EncodeAll(failedAt)
           /\ nPayloads >= 3 => SubSeq(chunkPayload(3), 1, 4) = <<0, 0, 0, 0>>

\* both calls are done; the one that waits failed on its sink at its third
\* chunk, and this one wrote all its chunks after that
C17_Witness ==
    /\ pc = "done" /\ other.pc = "done"
    /\ other.ret = SinkErr /\ Len(other.e.w.log) = 8
    /\ ret = NoErr /\ ~sinkFailed
    /\ Len(a.Image) = 2
    /\ nChunks = 7

\* C18: every pass of the loop of fetchPNGChunk takes at least 8 bytes off
\* the buffer, reaches the IEND stage or returns an error, and on every
\* buffer, well-formed or not, fetchPNGChunk ends with a result or an error.
C18_FetchTerminates ==
    /\ [][ (pc = "loop" /\ c.stage # dsSeenIEND)
             => \/ Len(c'.bb) + 8 <= Len(c.bb)
                \/ c'.stage = dsSeenIEND
                \/ (pc' = "fetched" /\ fret'.err \notin {NoErr, "running"}) ]_vars
    /\ <>(pc = "fetched" /\ fret.err \notin ({"running"} \cup Panics))

\* a buffer with an unhandled chunk, no IEND and a cut end, given up after
\* three passes or more
C18_Witness ==
    /\ pc = "fetched"
    /\ png.plte = 3 /\ ~png.iend /\ png.cut > 0
    /\ fret.err = ErrUnexpectedEOF
    /\ Len(pngBytes(png)) >= 8 + 3 * 12

\* the 32-bit field of chunk k's payload that starts at offset off (0-based)
field32(k, off) == Uint32(SubSeq(chunkPayload(k), off + 1, off + 4))

\* C19 (as claimed): in the output of a successful call every fcTL chunk,
\* frame 0's included, describes a region inside the canvas the IHDR chunk
\* declares: x_offset + width <= canvas width, y_offset + height <= canvas
\* height, also when frame 0's minimum coordinates are above 0.
C19_RegionsInsideCanvas ==
    (pc = "done" /\ ret = NoErr)
        => /\ chunkTag(1) = IHDR
           /\ field32(1, 0) = Dx(a.Image[1].bounds)
           /\ field32(1, 4) = Dy(a.Image[1].bounds)
           /\ \A k \in chunksTagged(fcTL) :
                /\ field32(k, 12) + field32(k, 4) <= field32(1, 0)
                /\ field32(k, 16) + field32(k, 8) <= field32(1, 4)
====
